---- MODULE Spec2Model ----
(***************************************************************************)
(* Coercion combinators of superstruct (src/structs/coercions.ts): coerce, *)
(* defaulted, masked and trimmed, the composed coercer that create runs,   *)
(* and the failure record of a validation.                                 *)
(*                                                                         *)
(* JavaScript values are records tagged by t.  Objects live on a heap (a   *)
(* sequence of objects) and are denoted by references, so that reference   *)
(* identity, copies and sharing are observable.  An object's props is the  *)
(* function of its own enumerable properties.  The heap holds the objects  *)
(* the caller can still reach: the ones it started with and the ones the   *)
(* latest result refers to.  Addresses are never used twice.               *)
(***************************************************************************)
EXTENDS Integers, Sequences, FiniteSets, TLC

VARIABLES structs, parent, heap, call

vars == <<structs, parent, heap, call>>

----------------------------------------------------------------------------
(* Bounds *)

MaxStrLen == 3
MaxStructs == 3
MaxHeap == 13
MaxNum == 7

----------------------------------------------------------------------------
(* Values *)

Undefined == [t |-> "undefined"]
Null == [t |-> "null"]
Num(n) == [t |-> "number", n |-> n]
Str(s) == [t |-> "string", s |-> s]
Ref(a) == [t |-> "ref", addr |-> a]

\* white space, as String.prototype.trim sees it
Whitespace == {" ", "\t"}

Chars == Whitespace \cup {"h"}

RECURSIVE StringsOfLen(_)
StringsOfLen(n) ==
  IF n = 0 THEN {<<>>}
  ELSE {Append(s, c) : s \in StringsOfLen(n - 1), c \in Chars}

Strings == UNION {StringsOfLen(n) : n \in 0..MaxStrLen}

one == <<"o", "n", "e">>
two == <<"t", "w", "o">>
three == <<"t", "h", "r", "e", "e">>
invalid == <<"i", "n", "v", "a", "l", "i", "d">>
hi == <<" ", " ", "h", "i", " ", " ">>

NoProps == [k \in {} |-> Undefined]

Obj(kind, props) == [kind |-> kind, props |-> props]

\* The objects the caller holds before any coercion runs.
InitObjects ==
  << Obj("plain", [a |-> Num(5)]),
     Obj("plain", [a |-> Num(5), b |-> Num(7)]),
     Obj("plain", NoProps),
     Obj("plain", [a |-> Undefined, z |-> Num(3)]),
     Obj("plain", [a |-> Num(1), b |-> Num(2)]),
     Obj("plain", [a |-> Ref(5)]),
     Obj("plain", [a |-> Ref(3)]),
     Obj("array", [i0 |-> Num(1)]),
     Obj("instance", [a |-> Num(5)]),
     Obj("map", [a |-> Num(1), b |-> Str(<<"h">>)]),
     Obj("plain", [a |-> Num(1), b |-> Num(2), z |-> Num(3)]) >>

InitHeap == [next |-> Len(InitObjects) + 1, objs |-> InitObjects]

\* for..in and the traversal of a container visit the keys in this order.
KeyOrder == <<"i0", "a", "b", "z", "key", "value", "one", "two">>

Primitives(h) ==
  {Undefined, Null} \cup {Num(n) : n \in {1, 5, MaxNum}} \cup {Str(s) : s \in Strings}

Values(h) == Primitives(h) \cup {Ref(a) : a \in DOMAIN h.objs}

\* v is a value of the language over heap h, not an error
IsValue(v, h) ==
  \/ v.t \in {"undefined", "null", "number", "string"}
  \/ v.t = "ref" /\ v.addr \in DOMAIN h.objs

\* Allocation of a new object at an address never used before; everything
\* already on the heap stays as it is.
Alloc(h, obj) ==
  [value |-> Ref(h.next),
   heap |-> [next |-> h.next + 1, objs |-> h.objs @@ (h.next :> obj)]]

\* the addresses an object's properties refer to
Refs(obj) == {obj.props[k].addr : k \in {j \in DOMAIN obj.props : obj.props[j].t = "ref"}}

\* the addresses reachable from the addresses as
RECURSIVE Reach(_, _)
Reach(as, h) ==
  LET more == as \cup UNION {Refs(h.objs[a]) : a \in as}
  IN IF more = as THEN as ELSE Reach(more, h)

\* what the caller still holds after a call returned value
Collect(h, value) ==
  LET live == (DOMAIN InitObjects) \cup Reach(IF value.t = "ref" THEN {value.addr} ELSE {}, h)
  IN [next |-> h.next, objs |-> [a \in live |-> h.objs[a]]]

\* x[key] on an object with own properties props
Get(props, key) == IF key \in DOMAIN props THEN props[key] ELSE Undefined

\* typeof x === 'object'
TypeofObject(x) == x.t \in {"ref", "null", "object"}

\* x == null
LooseNull(x) == x.t \in {"null", "undefined"}

\* isPlainObject of ../utils
isPlainObject(x, h) == x.t = "ref" /\ h.objs[x.addr].kind = "plain"

\* String.prototype.trim
RECURSIVE TrimStart(_)
TrimStart(s) ==
  IF s = <<>> THEN s
  ELSE IF Head(s) \in Whitespace THEN TrimStart(Tail(s)) ELSE s

RECURSIVE TrimEnd(_)
TrimEnd(s) ==
  IF s = <<>> THEN s
  ELSE IF s[Len(s)] \in Whitespace THEN TrimEnd(SubSeq(s, 1, Len(s) - 1)) ELSE s

\* Variant: only leading white space is removed.
trimStartOnly(s) == TrimStart(s)

trim(s) == TrimEnd(TrimStart(s))

----------------------------------------------------------------------------
(* Struct, the catalogue of type constructors, validation and is *)

Identity == [kind |-> "identity"]

\* new Struct({type, schema, validator, coercer}): coercer defaults to identity
Struct(type, schema, validator) ==
  [type |-> type, schema |-> schema, validator |-> validator, coercer |-> Identity]

Schema(kind, props) == [t |-> "object", kind |-> kind, props |-> props]

string == Struct("string", Undefined, "string")
number == Struct("number", Undefined, "number")
unknown == Struct("unknown", Undefined, "unknown")
enum == Struct("\"one\" | \"two\"", Schema("plain", [one |-> Str(one), two |-> Str(two)]), "enum")
intersection == Struct("string & empty", Null, "intersection")
map == Struct("Map<string,number>", Schema("plain", [key |-> string, value |-> number]), "map")
object == Struct("{a,b}", Schema("plain", [a |-> number, b |-> number]), "object")
tuple == Struct("[number]", Schema("array", [i0 |-> number]), "tuple")
literal == Struct("literal", Num(1), "literal")

Ok == [ok |-> TRUE]

Failure(path, value, type, branch) ==
  [ok |-> FALSE, path |-> path, value |-> value, type |-> type, branch |-> branch]

\* The struct's own test of the value it is given, before any descent.
Accepts(v, s, h) ==
  CASE s.validator = "string" -> v.t = "string"
    [] s.validator = "number" -> v.t = "number"
    [] s.validator = "unknown" -> TRUE
    [] s.validator = "enum" -> \E k \in DOMAIN s.schema.props : s.schema.props[k] = v
    [] s.validator = "intersection" -> v.t = "string" /\ Len(v.s) = 0
    [] s.validator = "literal" -> v = s.schema
    [] s.validator = "map" -> v.t = "ref" /\ h.objs[v.addr].kind = "map"
    [] s.validator = "object" -> v.t = "ref" /\ h.objs[v.addr].kind \in {"plain", "instance"}
    [] s.validator = "tuple" -> v.t = "ref" /\ h.objs[v.addr].kind = "array"

\* The keys a container descends into, in traversal order.
ChildKeys(v, s, h) ==
  LET keys == CASE s.validator = "map" -> DOMAIN h.objs[v.addr].props
                [] s.validator \in {"object", "tuple"} -> DOMAIN s.schema.props
                [] OTHER -> {}
  IN SelectSeq(KeyOrder, LAMBDA k : k \in keys)

ChildStruct(s, k) ==
  IF s.validator = "map" THEN s.schema.props.value ELSE s.schema.props[k]

RECURSIVE Validate(_, _, _, _, _)
RECURSIVE ValidateChildren(_, _, _, _, _, _)

\* Fail-fast, depth-first: the first failure found is the one returned.
ValidateChildren(keys, v, s, path, branch, h) ==
  IF keys = <<>> THEN Ok
  ELSE LET k == Head(keys)
           child == Get(h.objs[v.addr].props, k)
           r == Validate(child, ChildStruct(s, k), Append(path, k), Append(branch, child), h)
       IN IF r.ok THEN ValidateChildren(Tail(keys), v, s, path, branch, h) ELSE r

\* Variant: a container looks into the value before it tests the value.
ValidateChildrenFirst(v, s, path, branch, h) ==
  LET r == IF v.t = "ref"
             THEN ValidateChildren(ChildKeys(v, s, h), v, s, path, branch, h)
             ELSE Ok
  IN IF ~r.ok THEN r
     ELSE IF ~Accepts(v, s, h) THEN Failure(path, v, s.type, branch) ELSE Ok

\* branch already ends with v; a nested call extends path and branch first.
Validate(v, s, path, branch, h) ==
  IF ~Accepts(v, s, h) THEN Failure(path, v, s.type, branch)
  ELSE ValidateChildren(ChildKeys(v, s, h), v, s, path, branch, h)

validate(v, s, h) == Validate(v, s, <<>>, <<v>>, h)

\* is(value, struct): validity only, the coercer is not run
is(v, s, h) == validate(v, s, h).ok

----------------------------------------------------------------------------
(* src/structs/coercions.ts *)

\* own enumerable keys, as for..in visits them
Keys(props) == SelectSeq(KeyOrder, LAMBDA k : k \in DOMAIN props)

\* ret[key] = value
Assign(ret, key, value) ==
  [k \in DOMAIN ret \cup {key} |-> IF k = key THEN value ELSE ret[k]]

\* A fallback that is a zero-argument function: its body is a literal, which
\* each call evaluates anew (an object literal allocates a new object).
Function(literal_) == [t |-> "function", returns |-> literal_]

IsObjectLiteral(l) == "kind" \in DOMAIN l

CallFallback(fallback, h) ==
  IF IsObjectLiteral(fallback.returns)
    THEN Alloc(h, fallback.returns)
    ELSE [value |-> fallback.returns, heap |-> h]

\* Variant: the fallback is called once and what it returned is kept.
ResolveFallbackOnce(fallback, h) ==
  LET kept == {a \in DOMAIN h.objs : a >= InitHeap.next /\ h.objs[a] = fallback.returns}
  IN IF fallback.t # "function" THEN [value |-> fallback, heap |-> h]
     ELSE IF IsObjectLiteral(fallback.returns) /\ kept # {}
       THEN [value |-> Ref(CHOOSE a \in kept : TRUE), heap |-> h]
       ELSE CallFallback(fallback, h)

\* const f = typeof fallback === 'function' ? fallback() : fallback
ResolveFallback(fallback, h) ==
  IF fallback.t = "function"
    THEN CallFallback(fallback, h)
    ELSE [value |-> fallback, heap |-> h]

\* for (const key in f) { if (ret[key] === undefined) { ret[key] = f[key]; changed = true } }
RECURSIVE DefaultedLoop(_, _, _, _)
DefaultedLoop(keys, ret, f, changed) ==
  IF keys = <<>> THEN [ret |-> ret, changed |-> changed]
  ELSE LET key == Head(keys)
       IN IF Get(ret, key) = Undefined
            THEN DefaultedLoop(Tail(keys), Assign(ret, key, f[key]), f, TRUE)
            ELSE DefaultedLoop(Tail(keys), ret, f, changed)

\* Variant: the copy is returned whether or not a key was filled.
DefaultedCoercerAlwaysCopies(fallback, strict, x, h) ==
  LET r == ResolveFallback(fallback, h)
      f == r.value
      h1 == r.heap
  IN IF x = Undefined THEN [value |-> f, heap |-> h1]
     ELSE IF strict # "true" /\ isPlainObject(x, h1) /\ isPlainObject(f, h1)
       THEN LET fp == h1.objs[f.addr].props
                m == DefaultedLoop(Keys(fp), h1.objs[x.addr].props, fp, FALSE)
            IN Alloc(h1, Obj("plain", m.ret))
       ELSE [value |-> x, heap |-> h1]

\* Variant: options.strict is not looked at.
DefaultedCoercerIgnoresStrict(fallback, strict, x, h) ==
  LET r == ResolveFallback(fallback, h)
      f == r.value
      h1 == r.heap
  IN IF x = Undefined THEN [value |-> f, heap |-> h1]
     ELSE IF isPlainObject(x, h1) /\ isPlainObject(f, h1)
       THEN LET fp == h1.objs[f.addr].props
                m == DefaultedLoop(Keys(fp), h1.objs[x.addr].props, fp, FALSE)
            IN IF m.changed
                 THEN Alloc(h1, Obj("plain", m.ret))
                 ELSE [value |-> x, heap |-> h1]
       ELSE [value |-> x, heap |-> h1]

\* the function defaulted hands to coerce
DefaultedCoercer(fallback, strict, x, h) ==
  LET r == ResolveFallback(fallback, h)
      f == r.value
      h1 == r.heap
  IN IF x = Undefined THEN [value |-> f, heap |-> h1]
     ELSE IF strict # "true" /\ isPlainObject(x, h1) /\ isPlainObject(f, h1)
       THEN LET fp == h1.objs[f.addr].props
                m == DefaultedLoop(Keys(fp), h1.objs[x.addr].props, fp, FALSE)
            IN IF m.changed
                 THEN Alloc(h1, Obj("plain", m.ret))
                 ELSE [value |-> x, heap |-> h1]
       ELSE [value |-> x, heap |-> h1]

RECURSIVE MaskedLoop(_, _, _)

\* Variant: every key of the schema is copied, present in x or not.
MaskedLoopEveryKey(keys, ret, xp) ==
  IF keys = <<>> THEN ret
  ELSE MaskedLoop(Tail(keys), Assign(ret, Head(keys), Get(xp, Head(keys))), xp)

\* for (const key in struct.schema) { if (key in x) { ret[key] = x[key] } }
MaskedLoop(keys, ret, xp) ==
  IF keys = <<>> THEN ret
  ELSE LET key == Head(keys)
       IN IF key \in DOMAIN xp
            THEN MaskedLoop(Tail(keys), Assign(ret, key, xp[key]), xp)
            ELSE MaskedLoop(Tail(keys), ret, xp)

\* the function masked hands to coerce
MaskedCoercer(schema, x, h) ==
  IF \/ ~TypeofObject(schema)
     \/ LooseNull(schema)
     \/ ~TypeofObject(x)
     \/ LooseNull(x)
    THEN [value |-> x, heap |-> h]
    ELSE Alloc(h, Obj("plain", MaskedLoop(Keys(schema.props), NoProps, h.objs[x.addr].props)))

\* the function trimmed hands to coerce: (x) => x.trim()
TrimmedCoercer(x, h) == [value |-> Str(trim(x.s)), heap |-> h]

\* two functions a caller hands to coerce: (x) => x.length and (x) => x + 1
LengthCoercer(x, h) == [value |-> Num(Len(x.s)), heap |-> h]

SuccCoercer(x, h) == [value |-> Num((x.n + 1) % (MaxNum + 1)), heap |-> h]

\* coercer(value), for the function a coerce call was given
Apply(coercer, value, h) ==
  CASE coercer.name = "defaulted" -> DefaultedCoercer(coercer.fallback, coercer.strict, value, h)
    [] coercer.name = "masked" -> MaskedCoercer(coercer.schema, value, h)
    [] coercer.name = "trimmed" -> TrimmedCoercer(value, h)
    [] coercer.name = "length" -> LengthCoercer(value, h)
    [] coercer.name = "succ" -> SuccCoercer(value, h)

\* The closure coerce builds: it keeps fn, the coercer the struct had.
Closure(fn, condition, coercer) ==
  [kind |-> "coerce", fn |-> fn, condition |-> condition, coercer |-> coercer]

\* Variant: the condition is spread instead of the struct.
coerceSpreadsCondition(struct, condition, coercer) ==
  [condition EXCEPT !.coercer = Closure(struct.coercer, condition, coercer)]

coerce(struct, condition, coercer) ==
  [struct EXCEPT !.coercer = Closure(struct.coercer, condition, coercer)]

defaulted(S, fallback, options) ==
  coerce(S, unknown, [name |-> "defaulted", fallback |-> fallback, strict |-> options.strict])

masked(struct) ==
  coerce(struct, unknown, [name |-> "masked", schema |-> struct.schema])

trimmed(struct) ==
  coerce(struct, string, [name |-> "trimmed"])

Step(coercer, input, output, applied) ==
  [coercer |-> coercer, input |-> input, output |-> output, applied |-> applied]

RECURSIVE CallCoercer(_, _, _)

\* Variant: a condition mismatch returns the value without passing it to fn.
CallCoercerReturnsValue(c, value, h) ==
  IF c.kind = "identity" THEN [value |-> value, heap |-> h, steps |-> <<>>]
  ELSE IF is(value, c.condition, h)
    THEN LET g == Apply(c.coercer, value, h)
             r == CallCoercer(c.fn, g.value, g.heap)
         IN [r EXCEPT !.steps = <<Step(c.coercer, value, g.value, TRUE)>> \o r.steps]
    ELSE [value |-> value, heap |-> h, steps |-> <<Step(c.coercer, value, value, FALSE)>>]

\* Variant: fn runs first and the new coercion sees what fn returned.
CallCoercerFnFirst(c, value, h) ==
  IF c.kind = "identity" THEN [value |-> value, heap |-> h, steps |-> <<>>]
  ELSE LET r == CallCoercer(c.fn, value, h)
       IN IF is(r.value, c.condition, r.heap)
            THEN LET g == Apply(c.coercer, r.value, r.heap)
                 IN [value |-> g.value, heap |-> g.heap,
                     steps |-> Append(r.steps, Step(c.coercer, r.value, g.value, TRUE))]
            ELSE [r EXCEPT !.steps = Append(r.steps, Step(c.coercer, r.value, r.value, FALSE))]

\* struct.coercer(value): the value returned, the heap afterwards and the
\* coercion steps in the order they ran.
CallCoercer(c, value, h) ==
  IF c.kind = "identity" THEN [value |-> value, heap |-> h, steps |-> <<>>]
  ELSE IF is(value, c.condition, h)
    THEN LET g == Apply(c.coercer, value, h)
             r == CallCoercer(c.fn, g.value, g.heap)
         IN [r EXCEPT !.steps = <<Step(c.coercer, value, g.value, TRUE)>> \o r.steps]
    ELSE LET r == CallCoercer(c.fn, value, h)
         IN [r EXCEPT !.steps = <<Step(c.coercer, value, value, FALSE)>> \o r.steps]

----------------------------------------------------------------------------
(* create, and the caller that builds structs and runs them *)

\* create(value, struct): run the coercer, then validate what it returned
create(value, struct, h) ==
  LET r == CallCoercer(struct.coercer, value, h)
  IN [op |-> "create", struct |-> struct, input |-> value, before |-> h,
      coerced |-> r.value, steps |-> r.steps, heap |-> r.heap,
      result |-> validate(r.value, struct, r.heap)]

NoCall == [op |-> "none"]

New(struct) == [index |-> 0, struct |-> struct, by |-> "new"]

Made(i, by) == [index |-> i, struct |-> structs[i], by |-> by]

BaseStructs == {string, number, object}

\* condition and function pairs a caller hands to coerce
Coercions == {<<string, [name |-> "length"]>>, <<number, [name |-> "succ"]>>}

Fallbacks == {Str(hi)}

Inputs == {Undefined, Num(1), Str(hi), Ref(1)}

Init ==
  /\ \E S \in BaseStructs : structs = <<S>> /\ parent = <<New(S)>>
  /\ heap = InitHeap
  /\ call = NoCall

Register(struct, made) ==
  /\ Len(structs) < MaxStructs
  /\ structs' = Append(structs, struct)
  /\ parent' = Append(parent, made)
  /\ UNCHANGED <<heap, call>>

Coerce(i, c) == Register(coerce(structs[i], c[1], c[2]), Made(i, "coerce"))

Defaulted(i, fallback) ==
  Register(defaulted(structs[i], fallback, [strict |-> "omitted"]), Made(i, "defaulted"))

Masked(i) == Register(masked(structs[i]), Made(i, "masked"))

Trimmed(i) == Register(trimmed(structs[i]), Made(i, "trimmed"))

Run(value, struct) ==
  LET c == create(value, struct, heap)
  IN /\ c.heap.next <= MaxHeap + 1
     /\ call' = c
     /\ heap' = Collect(c.heap, c.coerced)

Create(i, value) ==
  /\ Run(value, structs[i])
  /\ UNCHANGED <<structs, parent>>

Next ==
  \/ \E i \in DOMAIN structs, c \in Coercions : Coerce(i, c)
  \/ \E i \in DOMAIN structs, fallback \in Fallbacks : Defaulted(i, fallback)
  \/ \E i \in DOMAIN structs : Masked(i)
  \/ \E i \in DOMAIN structs : Trimmed(i)
  \/ \E i \in DOMAIN structs, value \in Inputs : Create(i, value)

Spec == Init /\ [][Next]_vars

----------------------------------------------------------------------------
(* create on a struct made by defaulted *)

InitCalls ==
  /\ structs = <<>>
  /\ parent = <<>>
  /\ heap = InitHeap
  /\ call = NoCall

DefaultedFallbacks ==
  {Num(1), Ref(5), Ref(6), Ref(8),
   Function(Obj("plain", [a |-> Num(1), b |-> Num(2)])), Function(Num(1))}

\* options.strict: left out, false or true
Stricts == {"omitted", "false", "true"}

DefaultedInputs(h) == {Undefined, Null, Num(5)} \cup {Ref(a) : a \in DOMAIN h.objs}

CreateDefaulted(fallback, strict, x) ==
  /\ Run(x, defaulted(unknown, fallback, [strict |-> strict]))
  /\ UNCHANGED <<structs, parent>>

NextDefaulted ==
  \E fallback \in DefaultedFallbacks, strict \in Stricts, x \in DefaultedInputs(heap) :
    CreateDefaulted(fallback, strict, x)

SpecDefaulted == InitCalls /\ [][NextDefaulted]_vars

----------------------------------------------------------------------------
(* create on a struct made by masked *)

MaskedStructs == {string, intersection, literal, object, tuple}

MaskedInputs(h) ==
  {Undefined, Null, Num(5), Str(<<"h">>)} \cup {Ref(a) : a \in DOMAIN h.objs}

CreateMasked(S, x) ==
  /\ Run(x, masked(S))
  /\ UNCHANGED <<structs, parent>>

NextMasked == \E S \in MaskedStructs, x \in MaskedInputs(heap) : CreateMasked(S, x)

SpecMasked == InitCalls /\ [][NextMasked]_vars

----------------------------------------------------------------------------
(* create on a struct made by trimmed *)

TrimmedStructs == {string, number, unknown}

CreateTrimmed(S, x) ==
  /\ Run(x, trimmed(S))
  /\ UNCHANGED <<structs, parent>>

NextTrimmed == \E S \in TrimmedStructs, x \in Values(heap) \cup {Str(hi)} : CreateTrimmed(S, x)

SpecTrimmed == InitCalls /\ [][NextTrimmed]_vars

----------------------------------------------------------------------------
(* validation without coercion *)

ValidatedStructs == {string, number, enum, intersection, map, object, tuple}

ValidatedInputs(h) ==
  Values(h) \cup {Str(one), Str(three), Str(invalid), Str(<<"a">>)}

CallValidate(S, v) ==
  /\ call' = [op |-> "assert", struct |-> S, input |-> v, before |-> heap,
              result |-> validate(v, S, heap)]
  /\ UNCHANGED <<structs, parent, heap>>

NextValidate == \E S \in ValidatedStructs, v \in ValidatedInputs(heap) : CallValidate(S, v)

SpecValidate == InitCalls /\ [][NextValidate]_vars

----------------------------------------------------------------------------
(* Claims about coerce and the composed coercer *)

\* One layer seen alone: its function where its condition holds, else nothing.
Layer(c, v, h) ==
  IF is(v, c.condition, h) THEN Apply(c.coercer, v, h) ELSE [value |-> v, heap |-> h]

Layered == call.op = "create" /\ call.struct.coercer.kind = "coerce"

TwoLayers == Layered /\ call.struct.coercer.fn.kind = "coerce"

\* C1: the coercer of coerce(B, C, g) returns fn(g(v)) when is(v, C) and
\* fn(v) when not, fn being the coercer of B; a mismatch of the condition
\* only skips g, and a value is returned either way.
C1_CoerceConditional ==
  Layered =>
    LET c == call.struct.coercer
        v == call.input
        h == call.before
        g == Apply(c.coercer, v, h)
    IN /\ call.coerced = IF is(v, c.condition, h)
                           THEN CallCoercer(c.fn, g.value, g.heap).value
                           ELSE CallCoercer(c.fn, v, h).value
       /\ IsValue(call.coerced, call.heap)

\* a mismatch on the outer layer, with an inner layer that rewrote the value
C1_Witness ==
  /\ TwoLayers
  /\ ~is(call.input, call.struct.coercer.condition, call.before)
  /\ call.coerced # call.input

\* C2 as stated: the inner coercion sees the raw input and the outer one
\* sees what the inner layer produced.
C2_InnerFirst ==
  TwoLayers =>
    /\ call.steps[2].input = call.input
    /\ call.steps[1].input = call.steps[2].output

\* C2: the outer coercion (registered last) runs first on the raw input, and
\* the inner one sees what the outer layer produced; over a base struct with
\* the identity coercer the result is inner(outer(input)).  With trimmed
\* inside and defaulted outside, the default is filled in and then trimmed.
C2_OuterFirst ==
  TwoLayers =>
    LET c == call.struct.coercer
        outer == Layer(c, call.input, call.before)
    IN /\ call.steps[1].coercer = c.coercer
       /\ call.steps[1].input = call.input
       /\ call.steps[1].output = outer.value
       /\ call.steps[2].coercer = c.fn.coercer
       /\ call.steps[2].input = call.steps[1].output
       /\ c.fn.fn = Identity =>
            call.coerced = Layer(c.fn, outer.value, outer.heap).value

\* defaulted(trimmed(string), "  hi  ") on undefined gives "hi"
C2_Witness ==
  /\ TwoLayers
  /\ call.struct.coercer.coercer.name = "defaulted"
  /\ call.struct.coercer.fn.coercer.name = "trimmed"
  /\ call.input = Undefined
  /\ call.coerced = Str(<<"h", "i">>)

\* C3: a struct made by coerce, defaulted, masked or trimmed has the type,
\* schema and validator of the struct it was made from and another coercer;
\* the struct it was made from is still what it was; validation without
\* coercion gives the same outcome on both.
C3_OnlyCoercerDiffers ==
  \A i \in DOMAIN structs :
    parent[i].index # 0 =>
      LET b == parent[i].struct
          w == structs[i]
      IN /\ w.type = b.type
         /\ w.schema = b.schema
         /\ w.validator = b.validator
         /\ w.coercer # b.coercer
         /\ DOMAIN w = DOMAIN b
         /\ structs[parent[i].index] = b
         /\ \A v \in Values(heap) : validate(v, w, heap) = validate(v, b, heap)

\* a struct with two coercions whose create rewrote an input that is does
\* not accept
C3_Witness ==
  /\ TwoLayers
  /\ \E i \in DOMAIN structs : structs[i] = call.struct /\ parent[i].index # 0
  /\ call.coerced # call.input
  /\ ~is(call.input, call.struct, call.before)
  /\ call.result.ok

----------------------------------------------------------------------------
(* Claims about defaulted *)

DefaultedCall ==
  /\ call.op = "create"
  /\ call.struct.coercer.kind = "coerce"
  /\ call.struct.coercer.fn = Identity
  /\ call.struct.coercer.coercer.name = "defaulted"

GivenFallback == call.struct.coercer.coercer.fallback

GivenStrict == call.struct.coercer.coercer.strict

\* the objects that were there before the call are what they were
Untouched == \A a \in DOMAIN call.before.objs : call.heap.objs[a] = call.before.objs[a]

\* the result is an object made during the call
Fresh(v) ==
  /\ v.t = "ref"
  /\ v.addr \notin DOMAIN call.before.objs
  /\ v.addr >= call.before.next
  /\ v.addr \in DOMAIN call.heap.objs

\* the resolved fallback is a plain record, and its properties
FallbackIsPlain ==
  IF GivenFallback.t = "function"
    THEN IsObjectLiteral(GivenFallback.returns) /\ GivenFallback.returns.kind = "plain"
    ELSE isPlainObject(GivenFallback, call.before)

FallbackProps ==
  IF GivenFallback.t = "function"
    THEN GivenFallback.returns.props
    ELSE call.before.objs[GivenFallback.addr].props

\* C4: on undefined, strict or not, the coercion returns the fallback itself
\* when it is not callable and what a call of it returns when it is; every
\* coercion calls it again, so an object it makes is one no earlier
\* coercion returned.
C4_UndefinedGetsFallback ==
  (DefaultedCall /\ call.input = Undefined) =>
    IF GivenFallback.t # "function" THEN call.coerced = GivenFallback
    ELSE IF IsObjectLiteral(GivenFallback.returns)
      THEN Fresh(call.coerced) /\ call.heap.objs[call.coerced.addr] = GivenFallback.returns
      ELSE call.coerced = GivenFallback.returns

\* the second of two coercions of undefined by the same callable fallback,
\* the object of the first still held
C4_Witness ==
  /\ DefaultedCall
  /\ call.input = Undefined
  /\ GivenFallback.t = "function"
  /\ IsObjectLiteral(GivenFallback.returns)
  /\ \E a \in DOMAIN call.before.objs :
       /\ a >= InitHeap.next
       /\ call.before.objs[a] = GivenFallback.returns
       /\ call.coerced # Ref(a)

\* C5: not strict, x and the resolved fallback plain records: the keys of
\* the fallback that are undefined or absent in x are filled from the
\* fallback in a new copy of x, the other keys keep the value of x, x is
\* not modified, and with no key to fill x itself is returned.  Values are
\* taken over as they are, nested records are not merged.
C5_ShallowMerge ==
  (/\ DefaultedCall
   /\ GivenStrict # "true"
   /\ isPlainObject(call.input, call.before)
   /\ FallbackIsPlain) =>
    LET xp == call.before.objs[call.input.addr].props
        fp == FallbackProps
        fill == {k \in DOMAIN fp : Get(xp, k) = Undefined}
    IN /\ Untouched
       /\ IF fill = {} THEN call.coerced = call.input
          ELSE /\ Fresh(call.coerced)
               /\ call.coerced # call.input
               /\ LET ret == call.heap.objs[call.coerced.addr]
                  IN /\ ret.kind = "plain"
                     /\ DOMAIN ret.props = DOMAIN xp \cup fill
                     /\ \A k \in DOMAIN ret.props :
                          ret.props[k] = IF k \in fill THEN fp[k] ELSE xp[k]

\* fallback {a:1,b:2} and input {a:5} give a new {a:5,b:2}
C5_Witness ==
  /\ DefaultedCall
  /\ GivenStrict = "omitted"
  /\ GivenFallback = Ref(5)
  /\ call.input = Ref(1)
  /\ Fresh(call.coerced)
  /\ call.heap.objs[call.coerced.addr].props = [a |-> Num(5), b |-> Num(2)]

\* C6: x not undefined, and strict or one of x and the resolved fallback not
\* a plain record: x itself is returned and nothing is merged into it.
C6_NoMerge ==
  (/\ DefaultedCall
   /\ call.input # Undefined
   /\ \/ GivenStrict = "true"
      \/ ~isPlainObject(call.input, call.before)
      \/ ~FallbackIsPlain) =>
    /\ call.coerced = call.input
    /\ Untouched

\* fallback {a:1,b:2}, strict, on {} gives that {}
C6_Witness ==
  /\ DefaultedCall
  /\ GivenStrict = "true"
  /\ GivenFallback = Ref(5)
  /\ call.input = Ref(3)
  /\ call.coerced = Ref(3)
  /\ call.heap.objs[3].props = NoProps

----------------------------------------------------------------------------
(* Claims about masked *)

MaskedCall ==
  /\ call.op = "create"
  /\ call.struct.coercer.kind = "coerce"
  /\ call.struct.coercer.fn = Identity
  /\ call.struct.coercer.coercer.name = "masked"

\* the schema maps property names to structs
SchemaIsRecord == call.struct.schema.t = "object" /\ call.struct.schema.kind = "plain"

\* the input is an object: not a primitive, not null, not undefined
InputIsObject == call.input.t = "ref"

\* C7: schema a key-value record and x an object: the result is a new
\* object whose keys are the keys of the schema that x has, each with the
\* value x has for it; the other keys of x are dropped.
C7_MaskKeepsSchemaKeys ==
  (MaskedCall /\ SchemaIsRecord /\ InputIsObject) =>
    LET xp == call.before.objs[call.input.addr].props
    IN /\ Fresh(call.coerced)
       /\ Untouched
       /\ LET ret == call.heap.objs[call.coerced.addr].props
          IN /\ DOMAIN ret = DOMAIN call.struct.schema.props \cap DOMAIN xp
             /\ \A k \in DOMAIN ret : ret[k] = xp[k]

\* schema keys {a,b} and input {a:1,b:2,z:3} give {a:1,b:2}
C7_Witness ==
  /\ MaskedCall
  /\ call.struct = masked(object)
  /\ call.input = Ref(11)
  /\ Fresh(call.coerced)
  /\ call.heap.objs[call.coerced.addr].props = [a |-> Num(1), b |-> Num(2)]

----------------------------------------------------------------------------
(* Claims about trimmed *)

TrimmedCall ==
  /\ call.op = "create"
  /\ call.struct.coercer.kind = "coerce"
  /\ call.struct.coercer.coercer.name = "trimmed"

\* out is s without its leading and trailing white space
IsTrimOf(out, s) ==
  \E i \in 1..(Len(s) + 1), j \in 0..Len(s) :
    /\ out = SubSeq(s, i, j)
    /\ \A k \in 1..Len(s) : (k < i \/ k > j) => s[k] \in Whitespace
    /\ out # <<>> => (out[1] \notin Whitespace /\ out[Len(out)] \notin Whitespace)

\* C9: the step trimmed adds maps a string to that string without leading
\* and trailing white space, and any other value to itself.
C9_TrimStringsOnly ==
  TrimmedCall =>
    LET step == call.steps[1]
    IN /\ step.input = call.input
       /\ IF call.input.t = "string"
            THEN /\ step.applied
                 /\ step.output.t = "string"
                 /\ IsTrimOf(step.output.s, call.input.s)
            ELSE step.output = call.input

\* "  hi  " becomes "hi"
C9_Witness ==
  /\ TrimmedCall
  /\ call.input = Str(hi)
  /\ call.coerced = Str(<<"h", "i">>)

----------------------------------------------------------------------------
(* Claims about the failure record *)

\* C10: when the struct rejects the value it was given, without descent,
\* the failure has an empty path, the input as value, the type of the
\* struct and a branch that holds just the input.
C10_RootFailure ==
  (call.op = "assert" /\ ~Accepts(call.input, call.struct, call.before)) =>
    /\ ~call.result.ok
    /\ call.result.path = <<>>
    /\ call.result.value = call.input
    /\ call.result.type = call.struct.type
    /\ call.result.branch = <<call.input>>

\* map(string(), number()) against "invalid"
C10_Witness ==
  /\ call.op = "assert"
  /\ call.struct = map
  /\ call.input = Str(invalid)
  /\ call.result = Failure(<<>>, Str(invalid), "Map<string,number>", <<Str(invalid)>>)

====
